---- MODULE Spec2Model ----
(***************************************************************************)
(* Transfer Benchmark (package main of the tracing script): main,          *)
(* getClient, enableTracing, upload and download as one sequential         *)
(* program.  The storage client, the trace provider, the clock and the     *)
(* streams are collaborators: every call on them that can return an error  *)
(* is a nondeterministic choice between success and failure.               *)
(* Time is counted in whole seconds, byte counts in bytes.                 *)
(***************************************************************************)
EXTENDS Integers, Sequences, FiniteSets, TLC

VARIABLES
    api,        \* value of -api
    addSpans,   \* value of -add-spans
    cpuprofile, \* TRUE iff -cpuprofile names a file
    pc,         \* position of the single thread of control
    now,        \* wall clock, seconds
    log,        \* the calls made so far, each with the clock at the call
    proc,       \* the process: client, exit code, fatal message, printed total
    tracer,     \* the trace pipeline: exporter, provider, teardown
    prof,       \* the CPU profile: file and profiler
    mainDefers, \* main's deferred calls, last pushed first
    fnDefers,   \* the deferred calls of the running upload/download
    span,       \* span name -> "none" | "open" | "ended"
    objectName, \* id of the generated object name, 0 before upload
    up,         \* upload's locals and results, and main's timetakenU
    down,       \* download's locals and results, and main's timetakenD/C
    w,          \* the write stream
    r,          \* the ranged-read stream
    copyLeft,   \* bytes the running io.CopyN still has to copy
    fault       \* the I/O call that failed in upload/download, or "none"

vars == <<api, addSpans, cpuprofile, pc, now, log, proc, tracer, prof,
          mainDefers, fnDefers, span, objectName, up, down, w, r, copyLeft,
          fault>>

flags == <<api, addSpans, cpuprofile>>

-----------------------------------------------------------------------------
(* Bounds of the model *)

\* a collaborator call takes 0..MaxLatency seconds
MaxLatency == 1
\* number of distinct random object ids
NumIds == 2

(* Program constants *)

http1 == "http1"
http2 == "http2"
dp == "grpc-dp"

ValidApis == {http1, http2, dp}
\* values the -api flag is given in the model: the three modes and two others
ApiValues == ValidApis \cup {"", "grpc"}

UploadSleepSecs == 1
GapSleepSecs == 100
TailSleepSecs == 5

\* variant of UploadBytes: decimal megabytes
UploadBytesDecimal == 10 * 1000 * 1000

UploadBytes == 10 * 1024 * 1024
RangeOffset == 0
RangeLength == 1024 * 1024
FirstReadBytes == 1024
SecondReadBytes == 1024 * 1024 - 1024

\* io.Copy's buffer when the destination is a plain Writer
CopyBufSize == 32 * 1024
\* io.Discard's ReadFrom buffer
DiscardBufSize == 8 * 1024

SpanNames == {"uploada", "downloads", "user-span-1", "user-span-2"}
DownloadSpans == {"downloads", "user-span-1", "user-span-2"}

Latency == 0 .. MaxLatency

Min(a, b) == IF a < b THEN a ELSE b

Ev(e) == [e |-> e, t |-> now]

Logged(e) == \E i \in 1 .. Len(log) : log[i].e = e

\* position of the first call e in the log, 0 when it was never made
Idx(e) ==
    IF Logged(e)
    THEN CHOOSE i \in 1 .. Len(log) :
             /\ log[i].e = e
             /\ \A j \in 1 .. (i - 1) : log[j].e # e
    ELSE 0

\* clock at the first call e
At(e) == log[Idx(e)].t

-----------------------------------------------------------------------------
Init ==
    /\ api \in ApiValues
    /\ addSpans \in BOOLEAN
    /\ cpuprofile \in BOOLEAN
    /\ pc = "getClient"
    /\ now = 0
    /\ log = << >>
    /\ proc = [client |-> "nil", attempts |-> 0, dpEnv |-> FALSE,
               exit |-> -1, fatal |-> "", printed |-> -1]
    /\ tracer = [exporter |-> FALSE, provider |-> "none", teardown |-> FALSE,
                 flushes |-> 0, invoked |-> 0]
    /\ prof = [file |-> "none", profiler |-> "off"]
    /\ mainDefers = << >>
    /\ fnDefers = << >>
    /\ span = [s \in SpanNames |-> "none"]
    /\ objectName = 0
    /\ up = [start |-> -1, runTime |-> 0, err |-> "nil", timetaken |-> 0]
    /\ down = [start |-> -1, runTime |-> 0, err |-> "nil", reads |-> << >>,
               timetakenD |-> 0, timetakenC |-> 0]
    /\ w = [state |-> "none", bytes |-> 0, closes |-> 0, atClose |-> -1,
            late |-> 0]
    /\ r = [state |-> "none", offset |-> -1, length |-> -1, bytes |-> 0,
            closes |-> 0, atClose |-> -1, late |-> 0]
    /\ copyLeft = 0
    /\ fault = "none"

\* log.Fatal*: the message is logged and os.Exit(1) ends the process at once;
\* no deferred call runs
FatalWith(p, msg) ==
    /\ pc' = "exited"
    /\ proc' = [p EXCEPT !.exit = 1, !.fatal = msg]

Fatal(msg) == FatalWith(proc, msg)

\* Close on a write stream: counted, and the stream is released whatever
\* Close returns
CloseWriter(ws) ==
    [ws EXCEPT !.state = "closed", !.closes = @ + 1,
               !.atClose = IF ws.state = "open" THEN ws.bytes ELSE @]

CloseReader(rs) ==
    [rs EXCEPT !.state = "closed", !.closes = @ + 1,
               !.atClose = IF rs.state = "open" THEN rs.bytes ELSE @]

-----------------------------------------------------------------------------
(* getClient, with main's nil check *)

GetClientDP ==
    /\ pc = "getClient"
    /\ api = dp
    /\ \/ \* os.Setenv fails
          /\ Fatal("set DP env var")
          /\ UNCHANGED log
       \/ \* storage.NewGRPCClient fails
          /\ FatalWith([proc EXCEPT !.dpEnv = TRUE, !.attempts = @ + 1],
                       "NewGRPCClient")
          /\ log' = Append(log, Ev("NewGRPCClient"))
       \/ /\ pc' = "enableTracing"
          /\ proc' = [proc EXCEPT !.client = "grpc", !.dpEnv = TRUE,
                                  !.attempts = @ + 1]
          /\ log' = Append(log, Ev("NewGRPCClient"))
    /\ UNCHANGED <<flags, now, tracer, prof, mainDefers, fnDefers, span,
                   objectName, up, down, w, r, copyLeft, fault>>

GetClientHTTP2 ==
    /\ pc = "getClient"
    /\ api = http2
    /\ \/ /\ FatalWith([proc EXCEPT !.attempts = @ + 1], "NewClient")
       \/ /\ pc' = "enableTracing"
          /\ proc' = [proc EXCEPT !.client = "http2", !.attempts = @ + 1]
    /\ log' = Append(log, Ev("NewClient"))
    /\ UNCHANGED <<flags, now, tracer, prof, mainDefers, fnDefers, span,
                   objectName, up, down, w, r, copyLeft, fault>>

GetClientHTTP1 ==
    /\ pc = "getClient"
    /\ api = http1
    /\ \/ \* htransport.NewTransport fails
          /\ FatalWith([proc EXCEPT !.attempts = @ + 1], "creating transport")
          /\ log' = Append(log, Ev("NewTransport"))
       \/ /\ FatalWith([proc EXCEPT !.attempts = @ + 2], "NewClient")
          /\ log' = Append(Append(log, Ev("NewTransport")), Ev("NewClient"))
       \/ /\ pc' = "enableTracing"
          /\ proc' = [proc EXCEPT !.client = "http1", !.attempts = @ + 2]
          /\ log' = Append(Append(log, Ev("NewTransport")), Ev("NewClient"))
    /\ UNCHANGED <<flags, now, tracer, prof, mainDefers, fnDefers, span,
                   objectName, up, down, w, r, copyLeft, fault>>

\* variant of GetClientDefault: an unrecognised mode is served like http2
GetClientDefaultAsHTTP2 ==
    /\ pc = "getClient"
    /\ api \notin ValidApis
    /\ pc' = "enableTracing"
    /\ proc' = [proc EXCEPT !.client = "http2", !.attempts = @ + 1]
    /\ log' = Append(log, Ev("NewClient"))
    /\ UNCHANGED <<flags, now, tracer, prof, mainDefers, fnDefers, span,
                   objectName, up, down, w, r, copyLeft, fault>>

GetClientDefault ==
    /\ pc = "getClient"
    /\ api \notin ValidApis
    /\ Fatal("invalid -api")
    /\ UNCHANGED <<flags, now, log, tracer, prof, mainDefers, fnDefers, span,
                   objectName, up, down, w, r, copyLeft, fault>>

-----------------------------------------------------------------------------
(* enableTracing and the CPU profile *)

Push(d, s) == <<d>> \o s

EnableTracing ==
    /\ pc = "enableTracing"
    /\ \/ \* texporter.New fails
          /\ Fatal("texporter.New")
          /\ log' = Append(log, Ev("texporter.New"))
          /\ UNCHANGED <<tracer, mainDefers>>
       \/ \* resource.New fails with an error that is neither partial-resource
          \* nor schema-conflict
          /\ Fatal("resource.New")
          /\ log' = Append(log, Ev("texporter.New"))
          /\ tracer' = [tracer EXCEPT !.exporter = TRUE]
          /\ UNCHANGED mainDefers
       \/ \* the provider is registered; main defers the returned teardown
          /\ pc' = "cpuprofile"
          /\ log' = Append(log, Ev("texporter.New"))
          /\ tracer' = [tracer EXCEPT !.exporter = TRUE,
                                      !.provider = "registered",
                                      !.teardown = TRUE]
          /\ mainDefers' = Push("close", mainDefers)
          /\ UNCHANGED proc
    /\ UNCHANGED <<flags, now, prof, fnDefers, span, objectName, up, down, w,
                   r, copyLeft, fault>>

CpuProfileSkip ==
    /\ pc = "cpuprofile"
    /\ ~cpuprofile
    /\ pc' = "upload"
    /\ UNCHANGED <<flags, now, log, proc, tracer, prof, mainDefers, fnDefers,
                   span, objectName, up, down, w, r, copyLeft, fault>>

CpuProfileStart ==
    /\ pc = "cpuprofile"
    /\ cpuprofile
    /\ \/ \* os.Create fails
          /\ Fatal("could not create CPU profile")
          /\ UNCHANGED <<prof, mainDefers>>
       \/ \* pprof.StartCPUProfile fails, f.Close is already deferred
          /\ Fatal("could not start CPU profile")
          /\ prof' = [prof EXCEPT !.file = "open"]
          /\ mainDefers' = Push("f.Close", mainDefers)
       \/ /\ pc' = "upload"
          /\ prof' = [prof EXCEPT !.file = "open", !.profiler = "running"]
          /\ mainDefers' = Push("StopCPUProfile", Push("f.Close", mainDefers))
          /\ UNCHANGED proc
    /\ UNCHANGED <<flags, now, log, tracer, fnDefers, span, objectName, up,
                   down, w, r, copyLeft, fault>>

-----------------------------------------------------------------------------
(* upload *)

\* Write of n bytes on the write stream
WriteTo(ws, n) ==
    IF ws.state = "open"
    THEN [ws EXCEPT !.bytes = @ + n]
    ELSE [ws EXCEPT !.late = @ + 1]

UploadName ==
    /\ pc = "upload"
    /\ \E id \in 1 .. NumIds : objectName' = id
    /\ log' = Append(log, Ev("u.nameGen"))
    /\ pc' = "u_span"
    /\ UNCHANGED <<flags, now, proc, tracer, prof, mainDefers, fnDefers, span,
                   up, down, w, r, copyLeft, fault>>

UploadSpan ==
    /\ pc = "u_span"
    /\ IF addSpans
       THEN /\ span' = [span EXCEPT !["uploada"] = "open"]
            /\ fnDefers' = Push("uploada", fnDefers)
            /\ log' = Append(log, Ev("u.spanStart"))
       ELSE UNCHANGED <<span, fnDefers, log>>
    /\ pc' = "u_timer"
    /\ UNCHANGED <<flags, now, proc, tracer, prof, mainDefers, objectName, up,
                   down, w, r, copyLeft, fault>>

UploadTimer ==
    /\ pc = "u_timer"
    /\ up' = [up EXCEPT !.start = now]
    /\ fnDefers' = Push("timer", fnDefers)
    /\ log' = Append(log, Ev("u.timerStart"))
    /\ pc' = "u_newWriter"
    /\ UNCHANGED <<flags, now, proc, tracer, prof, mainDefers, span,
                   objectName, down, w, r, copyLeft, fault>>

UploadNewWriter ==
    /\ pc = "u_newWriter"
    /\ w' = [w EXCEPT !.state = "open"]
    /\ log' = Append(log, Ev("u.NewWriter"))
    /\ pc' = "u_sleep"
    /\ UNCHANGED <<flags, now, proc, tracer, prof, mainDefers, fnDefers, span,
                   objectName, up, down, r, copyLeft, fault>>

UploadSleep ==
    /\ pc = "u_sleep"
    /\ now' = now + UploadSleepSecs
    /\ log' = Append(log, Ev("u.Sleep"))
    /\ pc' = "u_copyN"
    /\ UNCHANGED <<flags, proc, tracer, prof, mainDefers, fnDefers, span,
                   objectName, up, down, w, r, copyLeft, fault>>

\* io.CopyN(w, rand.Reader, 10*1024*1024) is entered
UploadCopyN ==
    /\ pc = "u_copyN"
    /\ copyLeft' = UploadBytes
    /\ log' = Append(log, Ev("u.CopyN"))
    /\ pc' = "u_copy"
    /\ UNCHANGED <<flags, now, proc, tracer, prof, mainDefers, fnDefers, span,
                   objectName, up, down, w, r, fault>>

\* one buffer of random bytes is written to the stream
UploadCopyChunk ==
    /\ pc = "u_copy"
    /\ copyLeft > 0
    /\ LET n == Min(CopyBufSize, copyLeft) IN
         /\ w' = WriteTo(w, n)
         /\ copyLeft' = copyLeft - n
         /\ pc' = IF copyLeft - n = 0 THEN "u_close" ELSE "u_copy"
    /\ UNCHANGED <<flags, now, log, proc, tracer, prof, mainDefers, fnDefers,
                   span, objectName, up, down, r, fault>>

\* variant of UploadCopyFail: the error is returned without closing the stream
UploadCopyFailNoClose ==
    /\ pc = "u_copy"
    /\ copyLeft > 0
    /\ fault' = "u.copy"
    /\ up' = [up EXCEPT !.err = "io.CopyN"]
    /\ pc' = "u_ret"
    /\ UNCHANGED <<flags, now, log, proc, tracer, prof, mainDefers, fnDefers,
                   span, objectName, down, w, r, copyLeft>>

\* a Write fails: CopyN returns the error, the stream is closed, upload returns
UploadCopyFail ==
    /\ pc = "u_copy"
    /\ copyLeft > 0
    /\ fault' = "u.copy"
    /\ w' = CloseWriter(w)
    /\ log' = Append(log, Ev("u.Close"))
    /\ up' = [up EXCEPT !.err = "io.CopyN"]
    /\ pc' = "u_ret"
    /\ UNCHANGED <<flags, now, proc, tracer, prof, mainDefers, fnDefers, span,
                   objectName, down, r, copyLeft>>

UploadClose ==
    /\ pc = "u_close"
    /\ w' = CloseWriter(w)
    /\ log' = Append(log, Ev("u.Close"))
    /\ \E d \in Latency : now' = now + d
    /\ \/ /\ fault' = "u.close"
          /\ up' = [up EXCEPT !.err = "w.Close"]
       \/ UNCHANGED <<fault, up>>
    /\ pc' = "u_ret"
    /\ UNCHANGED <<flags, proc, tracer, prof, mainDefers, fnDefers, span,
                   objectName, down, r, copyLeft>>

\* upload's deferred calls run, last deferred first
UploadDeferred ==
    /\ pc = "u_ret"
    /\ fnDefers # << >>
    /\ IF Head(fnDefers) = "timer"
       THEN /\ up' = [up EXCEPT !.runTime = now - up.start]
            /\ log' = Append(log, Ev("u.timerStop"))
            /\ UNCHANGED span
       ELSE /\ span' = [span EXCEPT ![Head(fnDefers)] = "ended"]
            /\ log' = Append(log, Ev("u.spanEnd"))
            /\ UNCHANGED up
    /\ fnDefers' = Tail(fnDefers)
    /\ UNCHANGED <<flags, pc, now, proc, tracer, prof, mainDefers, objectName,
                   down, w, r, copyLeft, fault>>

\* upload returns (runTime, o, err) to main
UploadReturn ==
    /\ pc = "u_ret"
    /\ fnDefers = << >>
    /\ up' = [up EXCEPT !.timetaken = up.runTime]
    /\ log' = Append(log, Ev("u.return"))
    /\ pc' = "afterUpload"
    /\ UNCHANGED <<flags, now, proc, tracer, prof, mainDefers, fnDefers,
                   span, objectName, down, w, r, copyLeft, fault>>

\* variant of MainAfterUpload: upload's error is not looked at
MainAfterUploadIgnoresErr ==
    /\ pc = "afterUpload"
    /\ pc' = "download"
    /\ down' = [down EXCEPT !.timetakenC = 0, !.timetakenD = 0]
    /\ UNCHANGED <<flags, now, log, proc, tracer, prof, mainDefers, fnDefers,
                   span, objectName, up, w, r, copyLeft, fault>>

MainAfterUpload ==
    /\ pc = "afterUpload"
    /\ IF up.err # "nil"
       THEN Fatal("upload failed")
       ELSE /\ pc' = "download"
            /\ UNCHANGED proc
    /\ down' = [down EXCEPT !.timetakenC = 0, !.timetakenD = 0]
    /\ UNCHANGED <<flags, now, log, tracer, prof, mainDefers, fnDefers, span,
                   objectName, up, w, r, copyLeft, fault>>

-----------------------------------------------------------------------------
(* download *)

\* Read of n bytes from the ranged-read stream
ReadFrom(rs, n) ==
    IF rs.state = "open"
    THEN [rs EXCEPT !.bytes = @ + n]
    ELSE [rs EXCEPT !.late = @ + 1]

DownloadSpan ==
    /\ pc = "download"
    /\ IF addSpans
       THEN /\ span' = [span EXCEPT !["downloads"] = "open"]
            /\ fnDefers' = Push("downloads", fnDefers)
            /\ log' = Append(log, Ev("d.spanStart"))
       ELSE UNCHANGED <<span, fnDefers, log>>
    /\ pc' = "d_timer"
    /\ UNCHANGED <<flags, now, proc, tracer, prof, mainDefers, objectName, up,
                   down, w, r, copyLeft, fault>>

DownloadTimer ==
    /\ pc = "d_timer"
    /\ down' = [down EXCEPT !.start = now]
    /\ fnDefers' = Push("timer", fnDefers)
    /\ log' = Append(log, Ev("d.timerStart"))
    /\ pc' = "d_span1"
    /\ UNCHANGED <<flags, now, proc, tracer, prof, mainDefers, span,
                   objectName, up, w, r, copyLeft, fault>>

\* "user-span-1" is started whatever withSpan is; its End is not deferred
DownloadUserSpan1 ==
    /\ pc = "d_span1"
    /\ span' = [span EXCEPT !["user-span-1"] = "open"]
    /\ log' = Append(log, Ev("d.span1Start"))
    /\ pc' = "d_open"
    /\ UNCHANGED <<flags, now, proc, tracer, prof, mainDefers, fnDefers,
                   objectName, up, down, w, r, copyLeft, fault>>

DownloadNewRangeReader ==
    /\ pc = "d_open"
    /\ log' = Append(log, Ev("d.NewRangeReader"))
    /\ \/ /\ fault' = "d.open"
          /\ down' = [down EXCEPT !.err = "new reader"]
          /\ pc' = "d_ret"
          /\ UNCHANGED r
       \/ /\ r' = [r EXCEPT !.state = "open", !.offset = RangeOffset,
                            !.length = RangeLength]
          /\ pc' = "d_copyN1"
          /\ UNCHANGED <<fault, down>>
    /\ UNCHANGED <<flags, now, proc, tracer, prof, mainDefers, fnDefers, span,
                   objectName, up, w, copyLeft>>

\* io.CopyN(io.Discard, r, 1024) is entered
DownloadCopyN1 ==
    /\ pc = "d_copyN1"
    /\ copyLeft' = FirstReadBytes
    /\ down' = [down EXCEPT !.reads = Append(@, FirstReadBytes)]
    /\ log' = Append(log, Ev("d.CopyN1"))
    /\ pc' = "d_read1"
    /\ UNCHANGED <<flags, now, proc, tracer, prof, mainDefers, fnDefers, span,
                   objectName, up, w, r, fault>>

\* one Read on the stream: at most a buffer, at most what CopyN still wants;
\* the stream may return fewer bytes than asked
DownloadReadChunk ==
    /\ pc \in {"d_read1", "d_read2"}
    /\ copyLeft > 0
    /\ LET want == Min(DiscardBufSize, copyLeft) IN
         \E n \in {want, (want + 1) \div 2} :
            /\ r' = ReadFrom(r, n)
            /\ copyLeft' = copyLeft - n
            /\ pc' = IF copyLeft - n > 0 THEN pc
                     ELSE IF pc = "d_read1" THEN "d_span1End" ELSE "d_span2End"
    /\ UNCHANGED <<flags, now, log, proc, tracer, prof, mainDefers, fnDefers,
                   span, objectName, up, down, w, fault>>

\* a Read fails: CopyN returns the error, the stream is closed, download returns
DownloadReadFail ==
    /\ pc \in {"d_read1", "d_read2"}
    /\ copyLeft > 0
    /\ fault' = IF pc = "d_read1" THEN "d.read1" ELSE "d.read2"
    /\ r' = CloseReader(r)
    /\ log' = Append(log, Ev("d.Close"))
    /\ down' = [down EXCEPT !.err = "io.Copy"]
    /\ pc' = "d_ret"
    /\ UNCHANGED <<flags, now, proc, tracer, prof, mainDefers, fnDefers, span,
                   objectName, up, w, copyLeft>>

\* variant of DownloadSpan1End: the first user span is left open
DownloadSpan1EndMissing ==
    /\ pc = "d_span1End"
    /\ pc' = "d_gapSleep"
    /\ UNCHANGED <<flags, now, log, proc, tracer, prof, mainDefers, fnDefers,
                   span, objectName, up, down, w, r, copyLeft, fault>>

DownloadSpan1End ==
    /\ pc = "d_span1End"
    /\ span' = [span EXCEPT !["user-span-1"] = "ended"]
    /\ log' = Append(log, Ev("d.span1End"))
    /\ pc' = "d_gapSleep"
    /\ UNCHANGED <<flags, now, proc, tracer, prof, mainDefers, fnDefers,
                   objectName, up, down, w, r, copyLeft, fault>>

\* variant of DownloadGapSleep: the second read follows the first at once
DownloadGapSleepMissing ==
    /\ pc = "d_gapSleep"
    /\ log' = Append(log, Ev("d.Sleep100"))
    /\ pc' = "d_span2"
    /\ UNCHANGED <<flags, now, proc, tracer, prof, mainDefers, fnDefers, span,
                   objectName, up, down, w, r, copyLeft, fault>>

DownloadGapSleep ==
    /\ pc = "d_gapSleep"
    /\ now' = now + GapSleepSecs
    /\ log' = Append(log, Ev("d.Sleep100"))
    /\ pc' = "d_span2"
    /\ UNCHANGED <<flags, proc, tracer, prof, mainDefers, fnDefers, span,
                   objectName, up, down, w, r, copyLeft, fault>>

\* "user-span-2" is started whatever withSpan is; its End is not deferred
DownloadUserSpan2 ==
    /\ pc = "d_span2"
    /\ span' = [span EXCEPT !["user-span-2"] = "open"]
    /\ log' = Append(log, Ev("d.span2Start"))
    /\ pc' = "d_copyN2"
    /\ UNCHANGED <<flags, now, proc, tracer, prof, mainDefers, fnDefers,
                   objectName, up, down, w, r, copyLeft, fault>>

\* io.CopyN(io.Discard, r, 1024*1024-1024) is entered
DownloadCopyN2 ==
    /\ pc = "d_copyN2"
    /\ copyLeft' = SecondReadBytes
    /\ down' = [down EXCEPT !.reads = Append(@, SecondReadBytes)]
    /\ log' = Append(log, Ev("d.CopyN2"))
    /\ pc' = "d_read2"
    /\ UNCHANGED <<flags, now, proc, tracer, prof, mainDefers, fnDefers, span,
                   objectName, up, w, r, fault>>

DownloadSpan2End ==
    /\ pc = "d_span2End"
    /\ span' = [span EXCEPT !["user-span-2"] = "ended"]
    /\ log' = Append(log, Ev("d.span2End"))
    /\ pc' = "d_tailSleep"
    /\ UNCHANGED <<flags, now, proc, tracer, prof, mainDefers, fnDefers,
                   objectName, up, down, w, r, copyLeft, fault>>

DownloadTailSleep ==
    /\ pc = "d_tailSleep"
    /\ now' = now + TailSleepSecs
    /\ log' = Append(log, Ev("d.Sleep5"))
    /\ pc' = "d_close"
    /\ UNCHANGED <<flags, proc, tracer, prof, mainDefers, fnDefers, span,
                   objectName, up, down, w, r, copyLeft, fault>>

DownloadClose ==
    /\ pc = "d_close"
    /\ r' = CloseReader(r)
    /\ log' = Append(log, Ev("d.Close"))
    /\ \E d \in Latency : now' = now + d
    /\ \/ /\ fault' = "d.close"
          /\ down' = [down EXCEPT !.err = "e.Close"]
       \/ UNCHANGED <<fault, down>>
    /\ pc' = "d_ret"
    /\ UNCHANGED <<flags, proc, tracer, prof, mainDefers, fnDefers, span,
                   objectName, up, w, copyLeft>>

\* download's deferred calls run, last deferred first
DownloadDeferred ==
    /\ pc = "d_ret"
    /\ fnDefers # << >>
    /\ IF Head(fnDefers) = "timer"
       THEN /\ down' = [down EXCEPT !.runTime = now - down.start]
            /\ log' = Append(log, Ev("d.timerStop"))
            /\ UNCHANGED span
       ELSE /\ span' = [span EXCEPT ![Head(fnDefers)] = "ended"]
            /\ log' = Append(log, Ev("d.spanEnd"))
            /\ UNCHANGED down
    /\ fnDefers' = Tail(fnDefers)
    /\ UNCHANGED <<flags, pc, now, proc, tracer, prof, mainDefers, objectName,
                   up, w, r, copyLeft, fault>>

\* download returns (runTime, err) to main
DownloadReturn ==
    /\ pc = "d_ret"
    /\ fnDefers = << >>
    /\ down' = [down EXCEPT !.timetakenD = down.runTime]
    /\ log' = Append(log, Ev("d.return"))
    /\ pc' = "afterDownload"
    /\ UNCHANGED <<flags, now, proc, tracer, prof, mainDefers, fnDefers,
                   span, objectName, up, w, r, copyLeft, fault>>

MainAfterDownload ==
    /\ pc = "afterDownload"
    /\ IF down.err # "nil"
       THEN Fatal("download failed")
       ELSE /\ pc' = "print"
            /\ UNCHANGED proc
    /\ UNCHANGED <<flags, now, log, tracer, prof, mainDefers, fnDefers, span,
                   objectName, up, down, w, r, copyLeft, fault>>

-----------------------------------------------------------------------------
(* the end of main *)

\* variant of TotalTime: the upload term is left out
TotalTimeWithoutUpload == down.timetakenC + down.timetakenD

TotalTime == down.timetakenC + down.timetakenD + up.timetaken

MainPrint ==
    /\ pc = "print"
    /\ proc' = [proc EXCEPT !.printed = TotalTime]
    /\ pc' = "m_ret"
    /\ UNCHANGED <<flags, now, log, tracer, prof, mainDefers, fnDefers, span,
                   objectName, up, down, w, r, copyLeft, fault>>

\* main returns: its deferred calls run, last deferred first.  The teardown
\* flushes, then shuts the provider down; a Shutdown error is fatal
MainDeferred ==
    /\ pc = "m_ret"
    /\ mainDefers # << >>
    /\ mainDefers' = Tail(mainDefers)
    /\ \/ /\ Head(mainDefers) = "StopCPUProfile"
          /\ prof' = [prof EXCEPT !.profiler = "stopped"]
          /\ UNCHANGED <<pc, proc, tracer>>
       \/ /\ Head(mainDefers) = "f.Close"
          /\ prof' = [prof EXCEPT !.file = "closed"]
          /\ UNCHANGED <<pc, proc, tracer>>
       \/ /\ Head(mainDefers) = "close"
          /\ tracer' = [tracer EXCEPT !.flushes = @ + 1, !.invoked = @ + 1,
                                      !.provider = "shutdown"]
          /\ \/ UNCHANGED <<pc, proc>>
             \/ Fatal("Shutdown")
          /\ UNCHANGED prof
    /\ UNCHANGED <<flags, now, log, fnDefers, span, objectName, up, down, w,
                   r, copyLeft, fault>>

MainExit ==
    /\ pc = "m_ret"
    /\ mainDefers = << >>
    /\ pc' = "exited"
    /\ proc' = [proc EXCEPT !.exit = 0]
    /\ UNCHANGED <<flags, now, log, tracer, prof, mainDefers, fnDefers, span,
                   objectName, up, down, w, r, copyLeft, fault>>

Next ==
    \/ GetClientDP
    \/ GetClientHTTP2
    \/ GetClientHTTP1
    \/ GetClientDefault
    \/ EnableTracing
    \/ CpuProfileSkip
    \/ CpuProfileStart
    \/ UploadName
    \/ UploadSpan
    \/ UploadTimer
    \/ UploadNewWriter
    \/ UploadSleep
    \/ UploadCopyN
    \/ UploadCopyChunk
    \/ UploadCopyFail
    \/ UploadClose
    \/ UploadDeferred
    \/ UploadReturn
    \/ MainAfterUpload
    \/ DownloadSpan
    \/ DownloadTimer
    \/ DownloadUserSpan1
    \/ DownloadNewRangeReader
    \/ DownloadCopyN1
    \/ DownloadReadChunk
    \/ DownloadReadFail
    \/ DownloadSpan1End
    \/ DownloadGapSleep
    \/ DownloadUserSpan2
    \/ DownloadCopyN2
    \/ DownloadSpan2End
    \/ DownloadTailSleep
    \/ DownloadClose
    \/ DownloadDeferred
    \/ DownloadReturn
    \/ MainAfterDownload
    \/ MainPrint
    \/ MainDeferred
    \/ MainExit

Spec == Init /\ [][Next]_vars

-----------------------------------------------------------------------------
(* Properties *)

UploadFaults == {"u.copy", "u.close"}
DownloadFaults == {"d.open", "d.read1", "d.read2", "d.close"}

UploadReturned == Logged("u.return")
DownloadReturned == Logged("d.return")

\* number of calls e in the log
Count(e) == Cardinality({i \in 1 .. Len(log) : log[i].e = e})

\* C1: with -add-spans false no span is ever started, in upload or in
\* download.
C1_NoSpanWhenTracingDisabled ==
    ~addSpans => \A s \in SpanNames : span[s] = "none"

\* C2 as stated: with -add-spans true a successful download has opened
\* exactly two spans and closed exactly two, the first ended before the
\* second is started, and no two spans of the download phase are ever open
\* together.
C2_ExactlyTwoSpansNeverOverlapping ==
    addSpans =>
        /\ Cardinality({s \in DownloadSpans : span[s] = "open"}) <= 1
        /\ (DownloadReturned /\ down.err = "nil") =>
               /\ Cardinality({s \in DownloadSpans : span[s] # "none"}) = 2
               /\ Cardinality({s \in DownloadSpans : span[s] = "ended"}) = 2

\* C2 as amended: with -add-spans true a successful download has opened
\* exactly three spans and closed all three: the wrapping "downloads" span,
\* open for the whole of a download in which no call fails, and inside it
\* the two user spans one after the other; user-span-1 is ended before
\* user-span-2 is started and the two are never open together.
C2_ThreeSpansUserSpansInSequence ==
    addSpans =>
        /\ ~(span["user-span-1"] = "open" /\ span["user-span-2"] = "open")
        /\ span["user-span-2"] # "none" => span["user-span-1"] = "ended"
        /\ (fault = "none"
              /\ \E s \in {"user-span-1", "user-span-2"} : span[s] = "open")
               => span["downloads"] = "open"
        /\ (DownloadReturned /\ down.err = "nil") =>
               /\ \A s \in DownloadSpans : span[s] = "ended"
               /\ \A e \in {"d.spanStart", "d.span1Start", "d.span2Start",
                            "d.spanEnd", "d.span1End", "d.span2End"} :
                      Count(e) = 1
               /\ Idx("d.spanStart") < Idx("d.span1Start")
               /\ Idx("d.span1Start") < Idx("d.span1End")
               /\ Idx("d.span1End") < Idx("d.span2Start")
               /\ Idx("d.span2Start") < Idx("d.span2End")
               /\ Idx("d.span2End") < Idx("d.spanEnd")

C2_Witness ==
    /\ addSpans
    /\ DownloadReturned
    /\ down.err = "nil"

\* C3: once enableTracing has returned its teardown, the process does not
\* exit without the teardown having been invoked.
C3_TeardownInvokedBeforeExit ==
    (pc = "exited" /\ tracer.teardown) => tracer.invoked >= 1

\* C4: with an -api value outside {http1, http2, grpc-dp} the process ends
\* in getClient with "invalid -api": no client construction is attempted,
\* no exporter is created, no call is made, no stream is opened.
C4_InvalidApiExitsBeforeAnyCall ==
    api \notin {"http1", "http2", "grpc-dp"} =>
        /\ pc \in {"getClient", "exited"}
        /\ proc.attempts = 0
        /\ proc.client = "nil"
        /\ ~tracer.exporter
        /\ log = << >>
        /\ objectName = 0
        /\ w.state = "none"
        /\ r.state = "none"
        /\ pc = "exited" => (proc.exit = 1 /\ proc.fatal = "invalid -api")

C4_Witness ==
    /\ api \notin {"http1", "http2", "grpc-dp"}
    /\ pc = "exited"

\* C5: after an I/O error in upload or download the phase does nothing but
\* return: no stream is left open, the phase's error is non-nil, no later
\* phase starts, nothing is printed, and the process exits with status 1.
C5_IOErrorAbortsPhaseAndProcess ==
    /\ fault # "none" =>
           /\ pc \in {"u_ret", "afterUpload", "d_ret", "afterDownload",
                      "exited"}
           /\ w.state # "open"
           /\ r.state # "open"
           /\ w.late = 0
           /\ r.late = 0
           /\ proc.printed = -1
           /\ proc.exit \in {-1, 1}
           /\ pc = "exited" =>
                  /\ proc.exit = 1
                  /\ proc.fatal \in {"upload failed", "download failed"}
    /\ fault \in UploadFaults =>
           /\ up.err # "nil"
           /\ w.closes = 1
           /\ ~Logged("d.spanStart")
           /\ ~Logged("d.timerStart")
           /\ ~Logged("d.span1Start")
           /\ ~Logged("d.NewRangeReader")
           /\ pc = "exited" => proc.fatal = "upload failed"
    /\ fault \in DownloadFaults =>
           /\ down.err # "nil"
           /\ r.closes = (IF fault = "d.open" THEN 0 ELSE 1)
           /\ pc = "exited" => proc.fatal = "download failed"
    /\ pc \in {"download", "d_timer", "d_span1", "d_open"} => up.err = "nil"
    /\ proc.printed # -1 => (up.err = "nil" /\ down.err = "nil")

C5_Witness ==
    /\ fault \in UploadFaults
    /\ pc = "exited"

\* C6: when no write and no close of the write stream fails, upload has
\* written exactly 10 MiB when it closes the stream, closes it exactly once
\* and writes nothing after the close.
C6_UploadWritesTenMiBThenCloses ==
    /\ (w.state = "closed" /\ fault \notin UploadFaults) =>
           /\ w.atClose = 10 * 1024 * 1024
           /\ w.bytes = 10 * 1024 * 1024
           /\ w.closes = 1
           /\ w.late = 0
    /\ (UploadReturned /\ fault \notin UploadFaults) => w.state = "closed"
    /\ w.state = "open" => w.bytes <= 10 * 1024 * 1024

C6_Witness ==
    /\ UploadReturned
    /\ fault \notin UploadFaults
    /\ w.state = "closed"

\* C7: when no call on the read stream fails, download opens the reader at
\* offset 0 for 1 MiB, asks for 1 KiB and then for 1 MiB - 1 KiB, has read
\* exactly 1 MiB when it closes the stream, sleeps 100 s between the two
\* reads and reads nothing after the close.
C7_DownloadReadsOneMiBInTwoParts ==
    /\ (DownloadReturned /\ fault = "none") =>
           /\ r.offset = 0
           /\ r.length = 1024 * 1024
           /\ down.reads = <<1024, 1024 * 1024 - 1024>>
           /\ r.state = "closed"
           /\ r.atClose = 1024 * 1024
           /\ r.bytes = 1024 * 1024
           /\ r.closes = 1
           /\ r.late = 0
           /\ Idx("d.NewRangeReader") < Idx("d.CopyN1")
           /\ Idx("d.CopyN1") < Idx("d.Sleep100")
           /\ Idx("d.Sleep100") < Idx("d.CopyN2")
           /\ Idx("d.CopyN2") < Idx("d.Close")
           /\ At("d.CopyN2") - At("d.CopyN1") >= 100
    /\ pc \in {"d_span1End", "d_gapSleep", "d_span2", "d_copyN2"} =>
           r.bytes = 1024
    /\ r.state = "closed" => r.late = 0

C7_Witness ==
    /\ DownloadReturned
    /\ fault = "none"
    /\ r.bytes = 1024 * 1024

\* C8: the printed total is upload's returned duration plus download's
\* returned duration, the list-objects term being 0; upload's duration runs
\* from its timer start to its timer stop across the 1 s sleep, download's
\* across the 100 s and the 5 s sleeps.
C8_TotalIsUploadPlusDownload ==
    proc.printed # -1 =>
        /\ proc.printed = up.runTime + down.runTime
        /\ down.timetakenC = 0
        /\ up.runTime = At("u.timerStop") - At("u.timerStart")
        /\ down.runTime = At("d.timerStop") - At("d.timerStart")
        /\ Idx("u.timerStart") < Idx("u.Sleep")
        /\ Idx("u.Sleep") < Idx("u.timerStop")
        /\ Idx("d.timerStart") < Idx("d.Sleep100")
        /\ Idx("d.Sleep100") < Idx("d.Sleep5")
        /\ Idx("d.Sleep5") < Idx("d.timerStop")
        /\ up.runTime >= 1
        /\ down.runTime >= 100 + 5

C8_Witness ==
    /\ proc.printed # -1
    /\ proc.printed > 1 + 100 + 5

\* C9 as stated: upload's timer is started before the object name is
\* generated and before the optional span is started, and is stopped after
\* the stream is closed, on the success path and on the error paths.
C9_TimerStartsBeforeNameGeneration ==
    /\ Logged("u.timerStart") =>
           /\ Idx("u.timerStart") < Idx("u.nameGen")
           /\ Logged("u.spanStart") => Idx("u.timerStart") < Idx("u.spanStart")
    /\ UploadReturned =>
           /\ Logged("u.Close")
           /\ Idx("u.Close") < Idx("u.timerStop")

\* C9 as amended: upload's timer is started after the object name is
\* generated and after the optional span is started, before the write
\* stream is opened, and is stopped after the stream is closed, on the
\* success path and on the error paths.
C9_TimerStartsAfterNameGeneration ==
    /\ Logged("u.timerStart") =>
           /\ Logged("u.nameGen")
           /\ Idx("u.nameGen") < Idx("u.timerStart")
           /\ addSpans <=> Logged("u.spanStart")
           /\ Logged("u.spanStart") =>
                  /\ Idx("u.nameGen") < Idx("u.spanStart")
                  /\ Idx("u.spanStart") < Idx("u.timerStart")
    /\ Logged("u.NewWriter") => Idx("u.timerStart") < Idx("u.NewWriter")
    /\ UploadReturned =>
           /\ Logged("u.Close")
           /\ Logged("u.timerStop")
           /\ Idx("u.Close") < Idx("u.timerStop")
           /\ up.runTime = At("u.timerStop") - At("u.timerStart")

C9_Witness ==
    /\ UploadReturned
    /\ addSpans
    /\ up.err # "nil"

\* C10: when upload or download has returned, every span it started has
\* been ended, whatever the return path.
C10_SpansEndedAtReturn ==
    /\ UploadReturned => span["uploada"] # "open"
    /\ DownloadReturned => \A s \in DownloadSpans : span[s] # "open"
====
